---- MODULE Spec2Model ----
(***************************************************************************)
(* Verification model of OpenVietnameseImageCaptioning.                    *)
(*                                                                         *)
(* Spec is the training orchestrator: Trainer.train(),                     *)
(* Trainer.load_checkpoint and the two rolling checkpoint files            *)
(* (src/utils/trainer.py).  One behaviour of Spec is one call of           *)
(* Trainer.train(checkpoint_filename) on a checkpoint directory whose      *)
(* content is part of the input.  The body of the `while True` loop is cut *)
(* into the steps that read or write the state the claims are about; pc is *)
(* the position in the loop.                                               *)
(*                                                                         *)
(* ModelSpec is the caption model: the decoders and their running state    *)
(* (src/models/modules/decoders.py), the attention engines and the         *)
(* multi-head wrapper (src/models/modules/attentions.py) and the adaptive  *)
(* language models (src/models/modules/language_models.py).  One behaviour *)
(* of ModelSpec is a series of forward calls on one module; `component`    *)
(* names the module.                                                       *)
(*                                                                         *)
(* FairSpec is Spec with the weak fairness of sequential execution.        *)
(*                                                                         *)
(* UtilSpec is the helper functions: Trainer.convert_results and the two   *)
(* collate functions of region features (src/data_utils/utils.py).  One    *)
(* behaviour of UtilSpec is one call of one of them.                       *)
(***************************************************************************)
EXTENDS Integers, Sequences, FiniteSets, TLC

VARIABLES
    pc,                  \* position of train() (see PcValues)
    error,               \* the exception that ended train(), "" when none
    checkpoint_filename, \* the argument of train(); "None" when omitted
    files,               \* the checkpoint files on disk, by name
    params,              \* self.model's parameters (an abstract identity)
    optim,               \* self.optim, the optimizer in use
    checkpoint,          \* the local `checkpoint` of train()
    use_rl,              \* locals of train()
    best_val_cider,
    best_test_cider,
    patience,
    val_cider,
    best,
    switch_to_rl,
    exit_train,
    epoch_count,         \* history: training passes completed in this call
    seen_max,            \* history: largest validation CIDEr known so far
    below_streak,        \* history: latest consecutive epochs below seen_max
    written,             \* history: names of the files this call has written
    epoch,               \* self.epoch of the Trainer
    component,           \* the module a behaviour of ModelSpec calls
    is_stateful,         \* Module._is_stateful of the decoder and its layers
    running_mask_self_attention, \* decoder state: one flag per key column
    running_seq,         \* decoder state: the running position counter
    layer_cache,         \* per decoder layer: self_attn's running keys/values
    enc_cache,           \* per decoder layer: what enc_attn keeps between calls
    fed,                 \* history: tokens of the successful stateful calls
    dec_failed,          \* history: a decoder call failed since the reset
    dec_call,            \* what the last decoder forward call computed
    mha_cache,           \* a stateful MultiHeadAttention's running keys/values
    mha_fed,             \* history: keys handed to that module since its reset
    mha_call,            \* what its last forward call attended over
    engine,              \* self.attention of that module, set when it is built
    eng_call,            \* what the last attention-engine call computed
    lm_call,             \* what the last adaptive language-model call did
    util_call            \* what the last call of a helper function computed

trainerVars == <<pc, error, checkpoint_filename, files, params, optim,
                 checkpoint, use_rl, best_val_cider, best_test_cider,
                 patience, val_cider, best, switch_to_rl, exit_train,
                 epoch_count, seen_max, below_streak, written, epoch>>

decoderVars == <<is_stateful, running_mask_self_attention, running_seq,
                 layer_cache, enc_cache, fed, dec_failed, dec_call>>

mhaVars == <<mha_cache, mha_fed, mha_call, engine>>

modelVars == <<component, decoderVars, mhaVars, eng_call, lm_call,
               util_call>>

vars == <<trainerVars, modelVars>>

----------------------------------------------------------------------------
(* Bounds of the model. *)

\* Number of epochs one behaviour runs at most.
MaxEpochs == 11

\* Validation CIDEr scores are drawn from 0..MaxCider (CIDEr is never negative).
MaxCider == 2

----------------------------------------------------------------------------
(* Program constants. *)

\* `if patience == 5` (trainer.py:286).
PatienceThreshold == 5

\* Adam(model.parameters(), lr=1, ...) of __init__, in units of 1e-6.
XeBaseLr == 1000000

\* Adam(self.model.parameters(), lr=5e-6) at the XE -> RL switch, in units of 1e-6.
RlLr == 5

----------------------------------------------------------------------------
(* The caption model before any forward call.                              *)

\* Number of decoder layers of the modelled decoder (config.nlayers).
NLayers == 2

Layers == 1..NLayers

\* register_state('running_keys', torch.zeros((0, d_model))) and the same
\* for running_values (attentions.py:353-355): both caches start empty.
EmptyCache == [running_keys |-> <<>>, running_values |-> <<>>]

\* register_state('running_mask_self_attention', torch.zeros((1, 1, 0)))
\* (decoders.py:143, 186): a running mask without columns.
EmptyRunningMask == <<>>

\* register_state('running_seq', torch.zeros((1,))) (decoders.py:144, 187).
ZeroRunningSeq == 0

\* No forward call has been made yet.
NoCall == [kind |-> "none"]

\* self.attention of a MultiHeadAttention built without attention_module
\* (attentions.py:348).
DefaultEngine == "ScaledDotProductAttention"

\* The registered defaults of the decoder's states.
DecoderDefaults ==
    /\ running_mask_self_attention = EmptyRunningMask
    /\ running_seq = ZeroRunningSeq
    /\ layer_cache = [l \in Layers |-> EmptyCache]
    /\ enc_cache = [l \in Layers |-> EmptyCache]

\* The caption model as train() finds it: built, never called.
ModelIdle ==
    /\ component = "trainer"
    /\ is_stateful = FALSE
    /\ DecoderDefaults
    /\ fed = <<>>
    /\ dec_failed = FALSE
    /\ dec_call = NoCall
    /\ mha_cache = EmptyCache
    /\ mha_fed = <<>>
    /\ mha_call = NoCall
    /\ engine = DefaultEngine
    /\ eng_call = NoCall
    /\ lm_call = NoCall
    /\ util_call = NoCall

----------------------------------------------------------------------------
(* Values of the training orchestrator. *)

CiderVals == 0..MaxCider

\* The file names under config.checkpoint_path/config.model_name.  "other" is
\* any further file a caller may name in start_from.
LastFile == "last_model.pth"
BestFile == "best_val_model.pth"
OtherFile == "other.pth"
FileNames == {LastFile, BestFile, OtherFile}

\* The keys of the dict train() hands to torch.save.
SavedKeys ==
    {"val_loss", "val_cider", "patience", "best_val_cider", "best_test_cider",
     "use_rl"}

\* The keys load_checkpoint reads, in the order it reads them.
RngKeys ==
    {"torch_rng_state", "cuda_rng_state", "numpy_rng_state", "random_rng_state"}

PrintKeys == {"epoch", "val_loss", "best_val_cider", "best_test_cider"}

ReturnKeys == {"use_rl", "best_val_cider", "best_test_cider", "patience"}

LoadKeys ==
    RngKeys \cup {"state_dict", "optimizer", "scheduler"} \cup PrintKeys
        \cup ReturnKeys

\* Every field the specification lists for a checkpoint file.
FullKeys == SavedKeys \cup LoadKeys

----------------------------------------------------------------------------
(* Values. *)

\* Model parameters are identified by where they come from: the constructor,
\* the n-th training pass of this call, or a file found on disk.
InitParams == <<"init", 0>>
NoParams == <<"none", 0>>
TrainedParams(n) == <<"run", n>>
DiskParams(f) == <<f, 0>>

\* An optimizer: its base learning rate and whose moment estimates it holds.
XeOptimizer == [lr |-> XeBaseLr, moments |-> "empty"]
RlOptimizer == [lr |-> RlLr, moments |-> "empty"]
NoOptimizer == [lr |-> 0, moments |-> "none"]
SteppedOptimizer(o) == [o EXCEPT !.moments = "stepped"]

NoFile ==
    [exists |-> FALSE, keys |-> {}, val_cider |-> 0, patience |-> 0,
     best_val_cider |-> 0, best_test_cider |-> 0, use_rl |-> FALSE,
     state_dict |-> NoParams, optimizer |-> NoOptimizer]

\* The six-key record train() writes (trainer.py:302-309).
SavedRecord(vc, p, bvc, btc, rl) ==
    [exists |-> TRUE, keys |-> SavedKeys, val_cider |-> vc, patience |-> p,
     best_val_cider |-> bvc, best_test_cider |-> btc, use_rl |-> rl,
     state_dict |-> NoParams, optimizer |-> NoOptimizer]

\* A complete checkpoint, holding every key load_checkpoint reads.
FullRecord(f, vc, p, bvc, rl) ==
    [exists |-> TRUE, keys |-> FullKeys, val_cider |-> vc, patience |-> p,
     best_val_cider |-> bvc, best_test_cider |-> 0, use_rl |-> rl,
     state_dict |-> DiskParams(f),
     optimizer |-> SteppedOptimizer(IF rl THEN RlOptimizer ELSE XeOptimizer)]

\* What a checkpoint directory can hold before train() is called.  A best
\* file is the record of a best epoch: val_cider = best_val_cider, patience 0.
InitPatience == {0, PatienceThreshold - 1}
InitBestCider == {1}

InitBestFiles ==
    {NoFile}
        \cup {SavedRecord(c, 0, c, 0, rl) : c \in InitBestCider, rl \in BOOLEAN}
        \cup {FullRecord(BestFile, c, 0, c, rl) :
                c \in InitBestCider, rl \in BOOLEAN}

InitResumeFiles(f) ==
    {NoFile}
        \cup {SavedRecord(0, p, c, 0, rl) :
                p \in InitPatience, c \in InitBestCider, rl \in BOOLEAN}
        \cup {FullRecord(f, 0, p, c, rl) :
                p \in InitPatience, c \in InitBestCider, rl \in BOOLEAN}

NoCheckpoint == [bound |-> FALSE, isNone |-> FALSE, keys |-> {}]

PcValues ==
    {"top", "train", "evaluate", "rollback", "rollback_print", "save", "copy",
     "exit_check", "done", "error"}

----------------------------------------------------------------------------
(* Trainer.load_checkpoint(fname), trainer.py:209-231. *)

\* The result of load_checkpoint on file f when the model holds parameters p
\* and the optimizer is o.  outcome "none": the file is absent and None is
\* returned; "KeyError": a key read by load_checkpoint is missing, and the
\* statements before that read have already taken effect; "ok": a dict of the
\* four ReturnKeys is returned.  The RNG and scheduler states are followed
\* only as keys of the file.
LoadCheckpoint(f, p, o) ==
    IF ~f.exists THEN [outcome |-> "none", params |-> p, optim |-> o]
    ELSE IF ~(RngKeys \subseteq f.keys) \/ "state_dict" \notin f.keys
        THEN [outcome |-> "KeyError", params |-> p, optim |-> o]
    ELSE IF "optimizer" \notin f.keys
        THEN [outcome |-> "KeyError", params |-> f.state_dict, optim |-> o]
    ELSE IF "scheduler" \notin f.keys \/ ~(PrintKeys \subseteq f.keys)
            \/ ~(ReturnKeys \subseteq f.keys)
        THEN [outcome |-> "KeyError", params |-> f.state_dict,
              optim |-> f.optimizer]
    ELSE [outcome |-> "ok", params |-> f.state_dict, optim |-> f.optimizer]

\* The dict load_checkpoint returns (trainer.py:226-231).
ReturnedDict == [bound |-> TRUE, isNone |-> FALSE, keys |-> ReturnKeys]
ReturnedNone == [bound |-> TRUE, isNone |-> TRUE, keys |-> {}]

----------------------------------------------------------------------------
(* Trainer.train(checkpoint_filename), trainer.py:248-317. *)

\* A variant of TopStep in which a named but absent checkpoint file means
\* "start fresh" instead of a TypeError.
TopStepMissingIsFresh(fname, f, r) ==
    IF fname = "None" \/ r.outcome = "none"
        THEN [pc |-> "train", error |-> "", checkpoint |-> checkpoint,
              use_rl |-> FALSE, best_val_cider |-> 0, best_test_cider |-> 0,
              patience |-> 0]
    ELSE IF r.outcome = "KeyError"
        THEN [pc |-> "error", error |-> "KeyError", checkpoint |-> checkpoint,
              use_rl |-> use_rl, best_val_cider |-> best_val_cider,
              best_test_cider |-> best_test_cider, patience |-> patience]
    ELSE [pc |-> "train", error |-> "", checkpoint |-> ReturnedDict,
          use_rl |-> f.use_rl, best_val_cider |-> f.best_val_cider,
          best_test_cider |-> f.best_test_cider, patience |-> f.patience]

\* Lines 250-260, executed at the top of EVERY iteration of `while True`:
\* the locals are set from the checkpoint file when a file name was given,
\* and to the fresh values otherwise.  r is the result of load_checkpoint.
\* Subscripting the None of an absent file raises TypeError (line 252).
TopStep(fname, f, r) ==
    IF fname = "None"
        THEN [pc |-> "train", error |-> "", checkpoint |-> checkpoint,
              use_rl |-> FALSE, best_val_cider |-> 0, best_test_cider |-> 0,
              patience |-> 0]
    ELSE IF r.outcome = "none"
        THEN [pc |-> "error", error |-> "TypeError",
              checkpoint |-> ReturnedNone,
              use_rl |-> use_rl, best_val_cider |-> best_val_cider,
              best_test_cider |-> best_test_cider, patience |-> patience]
    ELSE IF r.outcome = "KeyError"
        THEN [pc |-> "error", error |-> "KeyError", checkpoint |-> checkpoint,
              use_rl |-> use_rl, best_val_cider |-> best_val_cider,
              best_test_cider |-> best_test_cider, patience |-> patience]
    ELSE [pc |-> "train", error |-> "", checkpoint |-> ReturnedDict,
          use_rl |-> f.use_rl, best_val_cider |-> f.best_val_cider,
          best_test_cider |-> f.best_test_cider, patience |-> f.patience]

LoopTop ==
    /\ pc = "top"
    /\ epoch_count < MaxEpochs
    /\ LET f == IF checkpoint_filename = "None" THEN NoFile
                ELSE files[checkpoint_filename]
           r == IF checkpoint_filename = "None"
                    THEN [outcome |-> "none", params |-> params,
                          optim |-> optim]
                    ELSE LoadCheckpoint(f, params, optim)
           t == TopStep(checkpoint_filename, f, r)
       IN  /\ pc' = t.pc
           /\ error' = t.error
           /\ checkpoint' = t.checkpoint
           /\ use_rl' = t.use_rl
           /\ best_val_cider' = t.best_val_cider
           /\ best_test_cider' = t.best_test_cider
           /\ patience' = t.patience
           /\ params' = r.params
           /\ optim' = r.optim
           \* history: a resumed run knows the best value of its checkpoint
           /\ seen_max' = IF epoch_count = 0 /\ t.pc = "train"
                             THEN t.best_val_cider ELSE seen_max
    /\ UNCHANGED <<epoch, modelVars>>
    /\ UNCHANGED <<checkpoint_filename, files, val_cider, best, switch_to_rl,
                   exit_train, epoch_count, below_streak, written>>

\* The names train_scst can read when it enters the body of its batch loop:
\* the attributes Trainer.__init__ assigns (trainer.py:30-94; line 94 binds
\* the scorer to self.cider_train) and the locals bound at lines 167-177.
ScstBoundAtLoopEntry ==
    {"self.model", "self.vocab", "self.optim", "self.scheduler",
     "self.loss_fn", "self.epoch", "self.train_dataset",
     "self.train_dict_dataset", "self.train_dataloader",
     "self.train_dict_dataloader", "self.cider_train",
     "tokenizer_pool", "running_reward", "running_reward_baseline", "vocab",
     "running_loss", "pbar", "it", "sample"}

\* The statements of the loop body of train_scst (trainer.py:178-195) up to
\* the optimizer step, in order: the line, the locals and attributes the
\* statement reads, and the names it binds once it has run.
ScstBody ==
    << [line |-> 178, reads |-> {"sample"}, binds |-> {"features"}],
       [line |-> 179, reads |-> {"sample"}, binds |-> {"boxes"}],
       [line |-> 180, reads |-> {"self.model", "features", "boxes", "vocab"},
        binds |-> {"outs", "log_probs"}],
       [line |-> 182, reads |-> {"self.optim"}, binds |-> {}],
       [line |-> 185, reads |-> {"vocab", "outs"}, binds |-> {"caps_gen"}],
       [line |-> 186, reads |-> {"caps_gt"}, binds |-> {"caps_gt"}],
       [line |-> 187, reads |-> {"tokenizer_pool", "caps_gen", "caps_gt"},
        binds |-> {"caps_gen", "caps_gt"}],
       [line |-> 188, reads |-> {"self.train_cider", "caps_gt", "caps_gen"},
        binds |-> {"reward"}],
       [line |-> 189, reads |-> {"reward", "features"}, binds |-> {"reward"}],
       [line |-> 190, reads |-> {"reward"}, binds |-> {"reward_baseline"}],
       [line |-> 191, reads |-> {"log_probs", "reward", "reward_baseline"},
        binds |-> {"loss"}],
       [line |-> 193, reads |-> {"loss"}, binds |-> {"loss"}],
       [line |-> 194, reads |-> {"loss"}, binds |-> {}],
       [line |-> 195, reads |-> {"self.optim"}, binds |-> {}] >>

\* A read of a name that is not bound raises: AttributeError for an
\* attribute of self, UnboundLocalError for a local of the function.
UnboundError(name) ==
    IF SubSeq(name, 1, 5) = "self." THEN "AttributeError"
    ELSE "UnboundLocalError"

\* Running the statements from the i-th on with the names `bound`: the first
\* statement that reads an unbound name ends the pass with its error.
RECURSIVE ScstRun(_, _)
ScstRun(i, bound) ==
    IF i > Len(ScstBody) THEN [error |-> "", line |-> 0]
    ELSE IF \E n \in ScstBody[i].reads : n \notin bound
        THEN [error |-> UnboundError(CHOOSE n \in ScstBody[i].reads :
                                         n \notin bound),
              line |-> ScstBody[i].line]
        ELSE ScstRun(i + 1, bound \cup ScstBody[i].binds)

\* The first batch of train_scst.
ScstPass == ScstRun(1, ScstBoundAtLoopEntry)

\* Lines 262-265.  train_xe (142-163) makes one pass over the training set,
\* stepping the optimizer.  train_scst (165-202) reads the local caps_gt at
\* line 186 before any assignment to it, in its first batch and before its
\* first optimizer step: UnboundLocalError.
TrainStep(rl) ==
    IF ~rl \/ ScstPass.error = ""
        THEN [pc |-> "evaluate", error |-> "",
              params |-> TrainedParams(epoch_count + 1),
              optim |-> SteppedOptimizer(optim),
              epoch_count |-> epoch_count + 1]
        ELSE [pc |-> "error", error |-> ScstPass.error,
              params |-> params, optim |-> optim,
              epoch_count |-> epoch_count]

Train ==
    /\ pc = "train"
    /\ LET t == TrainStep(use_rl)
       IN  /\ pc' = t.pc
           /\ error' = t.error
           /\ params' = t.params
           /\ optim' = t.optim
           /\ epoch_count' = t.epoch_count
    /\ UNCHANGED <<epoch, modelVars>>
    /\ UNCHANGED <<checkpoint_filename, files, checkpoint, use_rl,
                   best_val_cider, best_test_cider, patience, val_cider, best,
                   switch_to_rl, exit_train, seen_max, below_streak, written>>

\* Lines 274-281: is the epoch with validation CIDEr v a best one?
IsBest(v, bvc) == v >= bvc

\* A variant of Transition whose threshold test fires one epoch later.
TransitionThresholdLate(v, bvc, p, rl) ==
    LET b == v >= bvc
        p1 == IF b THEN 0 ELSE p + 1
        hit == (p1 = PatienceThreshold + 1)
    IN  [best |-> b,
         best_val_cider |-> IF b THEN v ELSE bvc,
         patience |-> IF hit /\ ~rl THEN 0 ELSE p1,
         use_rl |-> IF hit /\ ~rl THEN TRUE ELSE rl,
         switch_to_rl |-> hit /\ ~rl,
         exit_train |-> hit /\ rl]

\* Lines 274-295, "Prepare for next epoch": from the epoch's validation CIDEr
\* v and the locals, the new locals and the two flags.
Transition(v, bvc, p, rl) ==
    LET b == IsBest(v, bvc)
        bvc1 == IF b THEN v ELSE bvc
        p1 == IF b THEN 0 ELSE p + 1
        hit == (p1 = PatienceThreshold)
    IN  [best |-> b,
         best_val_cider |-> bvc1,
         patience |-> IF hit /\ ~rl THEN 0 ELSE p1,
         use_rl |-> IF hit /\ ~rl THEN TRUE ELSE rl,
         switch_to_rl |-> hit /\ ~rl,
         exit_train |-> hit /\ rl]

\* Lines 267-295: evaluate_loss, evaluate_metrics (the score v is the input
\* of the step), then the transition; the switch makes a new Adam (line 291).
Evaluate ==
    /\ pc = "evaluate"
    /\ \E v \in CiderVals :
         LET t == Transition(v, best_val_cider, patience, use_rl)
         IN  /\ val_cider' = v
             /\ best' = t.best
             /\ best_val_cider' = t.best_val_cider
             /\ patience' = t.patience
             /\ use_rl' = t.use_rl
             /\ switch_to_rl' = t.switch_to_rl
             /\ exit_train' = t.exit_train
             /\ optim' = IF t.switch_to_rl THEN RlOptimizer ELSE optim
             \* history
             /\ seen_max' = IF v >= seen_max THEN v ELSE seen_max
             /\ below_streak' = IF v >= seen_max THEN 0 ELSE below_streak + 1
    /\ pc' = "rollback"
    /\ UNCHANGED <<epoch, modelVars>>
    /\ UNCHANGED <<error, checkpoint_filename, files, params, checkpoint,
                   best_test_cider, epoch_count, written>>

\* Line 297: the rollback runs on a switch epoch that is not a best epoch.
NeedsRollback == switch_to_rl /\ ~best

\* Lines 297-298: load_checkpoint on the best file; its result, dict or None,
\* is bound to `checkpoint`.
Rollback ==
    /\ pc = "rollback"
    /\ IF NeedsRollback
         THEN LET r == LoadCheckpoint(files[BestFile], params, optim)
              IN  /\ params' = r.params
                  /\ optim' = r.optim
                  /\ pc' = IF r.outcome = "KeyError" THEN "error"
                           ELSE "rollback_print"
                  /\ error' = IF r.outcome = "KeyError" THEN "KeyError"
                              ELSE error
                  /\ checkpoint' = IF r.outcome = "KeyError" THEN checkpoint
                                   ELSE IF r.outcome = "none" THEN ReturnedNone
                                   ELSE ReturnedDict
         ELSE /\ pc' = "save"
              /\ UNCHANGED <<params, optim, error, checkpoint>>
    /\ UNCHANGED <<epoch, modelVars>>
    /\ UNCHANGED <<checkpoint_filename, files, use_rl, best_val_cider,
                   best_test_cider, patience, val_cider, best, switch_to_rl,
                   exit_train, epoch_count, seen_max, below_streak, written>>

\* Lines 299-300: the message reads checkpoint['epoch'] and
\* checkpoint['val_loss'] from what load_checkpoint returned: TypeError on
\* None, KeyError on a dict without these keys.
PrintOutcome(c) ==
    IF c.isNone THEN "TypeError"
    ELSE IF ~({"epoch", "val_loss", "best_val_cider", "best_test_cider"}
                \subseteq c.keys) THEN "KeyError"
    ELSE ""

RollbackPrint ==
    /\ pc = "rollback_print"
    /\ error' = PrintOutcome(checkpoint)
    /\ pc' = IF PrintOutcome(checkpoint) = "" THEN "save" ELSE "error"
    /\ UNCHANGED <<epoch, modelVars>>
    /\ UNCHANGED <<checkpoint_filename, files, params, optim, checkpoint,
                   use_rl, best_val_cider, best_test_cider, patience,
                   val_cider, best, switch_to_rl, exit_train, epoch_count,
                   seen_max, below_streak, written>>

\* Lines 302-309: the record torch.save writes to the last file.
CurrentRecord ==
    SavedRecord(val_cider, patience, best_val_cider, best_test_cider, use_rl)

SaveLast ==
    /\ pc = "save"
    /\ files' = [files EXCEPT ![LastFile] = CurrentRecord]
    /\ written' = written \cup {LastFile}
    /\ pc' = "copy"
    /\ UNCHANGED <<epoch, modelVars>>
    /\ UNCHANGED <<error, checkpoint_filename, params, optim, checkpoint,
                   use_rl, best_val_cider, best_test_cider, patience,
                   val_cider, best, switch_to_rl, exit_train, epoch_count,
                   seen_max, below_streak>>

\* A variant of ShouldCopy that copies on every epoch.
ShouldCopyAlways == TRUE

\* Line 311: `if best:`.
ShouldCopy == best

\* Lines 311-312: copyfile(last, best) on a best epoch.
CopyBest ==
    /\ pc = "copy"
    /\ files' = IF ShouldCopy THEN [files EXCEPT ![BestFile] = files[LastFile]]
                ELSE files
    /\ written' = IF ShouldCopy THEN written \cup {BestFile} ELSE written
    /\ pc' = "exit_check"
    /\ UNCHANGED <<epoch, modelVars>>
    /\ UNCHANGED <<error, checkpoint_filename, params, optim, checkpoint,
                   use_rl, best_val_cider, best_test_cider, patience,
                   val_cider, best, switch_to_rl, exit_train, epoch_count,
                   seen_max, below_streak>>

\* Lines 314-317: `if exit_train: break`, else the next iteration.
ExitCheck ==
    /\ pc = "exit_check"
    /\ pc' = IF exit_train THEN "done" ELSE "top"
    /\ UNCHANGED <<epoch, modelVars>>
    /\ UNCHANGED <<error, checkpoint_filename, files, params, optim,
                   checkpoint, use_rl, best_val_cider, best_test_cider,
                   patience, val_cider, best, switch_to_rl, exit_train,
                   epoch_count, seen_max, below_streak, written>>

----------------------------------------------------------------------------
(* The state at the call of train(): a new Trainer (trainer.py:30-36), an   *)
(* argument, and a checkpoint directory.  Only the file named by the       *)
(* argument and the best file are ever read, so no other file is present.  *)
(* The locals of train() are unbound until the first LoopTop; they are     *)
(* given the values LoopTop overwrites.                                    *)

Init ==
    /\ pc = "top"
    /\ error = ""
    /\ checkpoint_filename \in {"None"} \cup FileNames
    /\ \E fb \in InitBestFiles :
         \E fr \in (IF checkpoint_filename \in {LastFile, OtherFile}
                        THEN InitResumeFiles(checkpoint_filename)
                        ELSE {NoFile}) :
           files = [n \in FileNames |->
                       IF n = BestFile THEN fb
                       ELSE IF n = checkpoint_filename THEN fr ELSE NoFile]
    /\ params = InitParams
    /\ optim = XeOptimizer
    /\ checkpoint = NoCheckpoint
    /\ use_rl = FALSE
    /\ best_val_cider = 0
    /\ best_test_cider = 0
    /\ patience = 0
    /\ val_cider = 0
    /\ best = FALSE
    /\ switch_to_rl = FALSE
    /\ exit_train = FALSE
    /\ epoch_count = 0
    /\ seen_max = 0
    /\ below_streak = 0
    /\ written = {}
    /\ epoch = 0
    /\ ModelIdle

Next ==
    \/ LoopTop
    \/ Train
    \/ Evaluate
    \/ Rollback
    \/ RollbackPrint
    \/ SaveLast
    \/ CopyBest
    \/ ExitCheck

Spec == Init /\ [][Next]_vars

----------------------------------------------------------------------------
(* Type invariant. *)

TypeOK ==
    /\ pc \in PcValues
    /\ error \in {"", "TypeError", "KeyError", "UnboundLocalError"}
    /\ checkpoint_filename \in {"None"} \cup FileNames
    /\ DOMAIN files = FileNames
    /\ use_rl \in BOOLEAN
    /\ best_val_cider \in CiderVals
    /\ patience \in 0..PatienceThreshold
    /\ val_cider \in CiderVals
    /\ epoch_count \in 0..MaxEpochs
    /\ written \subseteq FileNames

----------------------------------------------------------------------------
(* Properties of the training state machine. *)

FreshRun == checkpoint_filename = "None"

\* The positions of an epoch after its transition (lines 274-295) was taken.
AfterTransition == {"rollback", "rollback_print", "save", "copy", "exit_check"}

\* The positions after the rollback's load_checkpoint (line 298) returned.
AfterRollbackLoad ==
    {"rollback_print", "save", "copy", "exit_check", "top", "train"}

\* C1: in a run started without a checkpoint whose first epoch is the best
\* and whose next 5 epochs are all below it (below_streak = 5 at the end of
\* epoch 6), the switch from XE to RL happens at epoch 6, not before, and the
\* parameters of the first epoch are back in the model before epoch 7 runs.
C1_SwitchAtPatienceFive ==
    FreshRun =>
        /\ (epoch_count <= PatienceThreshold => ~use_rl)
        /\ (/\ epoch_count = PatienceThreshold + 1
            /\ below_streak = PatienceThreshold
            /\ pc \in AfterTransition)
               => (use_rl /\ switch_to_rl)
        /\ (/\ epoch_count = PatienceThreshold + 1
            /\ below_streak = PatienceThreshold
            /\ pc \in {"save", "copy", "exit_check", "top", "train"})
               => params = TrainedParams(1)

\* C2: once the rollback of a switch on a non-best epoch is over, the run
\* goes on (it has not failed) and the model holds the parameters stored in
\* the best checkpoint, with the RL phase selected.
C2_RlStartsFromBestParams ==
    (NeedsRollback /\ pc # "rollback") =>
        /\ pc # "error"
        /\ use_rl
        /\ files[BestFile].exists
        /\ "state_dict" \in files[BestFile].keys
        /\ params = files[BestFile].state_dict

\* C3: train() returns only from an epoch that began in RL and brought
\* patience to 5, and only after that epoch's last checkpoint was written;
\* exit_train is never set in XE; and an XE epoch that brings patience to 5
\* leads to the RL phase: the run goes on with use_rl set, and neither
\* returns nor fails.
C3_StopOnlyFromRl ==
    /\ pc = "done" =>
          /\ exit_train /\ use_rl /\ patience = PatienceThreshold
          /\ files[LastFile] = CurrentRecord
    /\ exit_train => (use_rl /\ ~switch_to_rl /\ patience = PatienceThreshold)
    /\ (exit_train /\ pc \notin AfterTransition) => pc = "done"
    /\ switch_to_rl => (use_rl /\ ~exit_train /\ pc \notin {"done", "error"})

\* C4: termination.  With the threshold of 5 a run whose validation CIDEr
\* stays below the best seen switches to RL after at most 5 such epochs and
\* stops after at most 5 more: after 10 consecutive epochs below the best
\* seen, train() has decided to stop.
C4_TerminatesAfterTwoPatienceRounds ==
    below_streak >= 2 * PatienceThreshold => (exit_train \/ pc = "done")

\* C5: after every epoch best_val_cider is the largest validation CIDEr seen
\* so far (with the value of the loaded checkpoint, when resumed), and the
\* epoch is marked best exactly when its score reached the best seen before.
C5_BestIsRunningMax ==
    pc \in AfterTransition =>
        /\ best_val_cider = seen_max
        /\ best <=> (below_streak = 0)

\* C6: the last checkpoint written by train() holds every field of a
\* checkpoint, and load_checkpoint on it succeeds and gives back the
\* parameters and the optimizer that were in use when it was written.
C6_LastCheckpointRoundTrip ==
    (LastFile \in written /\ pc = "copy") =>
        /\ FullKeys \subseteq files[LastFile].keys
        /\ LoadCheckpoint(files[LastFile], NoParams, NoOptimizer)
              = [outcome |-> "ok", params |-> params, optim |-> optim]

\* C7: on a best epoch the best file becomes a copy of the last file, which
\* already holds that epoch's record; in every other step the best file is
\* left unchanged; and a best file that exists stores val_cider equal to its
\* best_val_cider.
C7_BestFileIsLastBestEpoch ==
    /\ [](files[BestFile].exists
            => files[BestFile].val_cider = files[BestFile].best_val_cider)
    /\ [][(pc = "copy" /\ best)
            => (/\ files[LastFile] = CurrentRecord
                /\ files'[BestFile] = CurrentRecord)]_vars
    /\ [][~(pc = "copy" /\ best) => files'[BestFile] = files[BestFile]]_vars

\* C7 witness: after a best epoch copied its record, a later epoch that is
\* not a best one has written the last file and left the best file alone.
C7_Witness ==
    /\ pc = "exit_check"
    /\ ~best
    /\ BestFile \in written
    /\ files[LastFile] = CurrentRecord
    /\ files[BestFile] # files[LastFile]

\* C8: after the switch to RL and its rollback, the optimizer in use is the
\* newly made Adam with the RL learning rate and no optimizer state.
C8_FreshRlOptimizer ==
    (switch_to_rl /\ pc \in AfterRollbackLoad) => optim = RlOptimizer

\* C9: the state is carried from one epoch to the next: the step that opens
\* an epoch after the first changes none of use_rl, patience, the best CIDEr
\* values and the model parameters, so a checkpoint file is not loaded again.
C9_StateCarriedAcrossEpochs ==
    [][(pc = "top" /\ epoch_count >= 1)
         => /\ use_rl' = use_rl
            /\ patience' = patience
            /\ best_val_cider' = best_val_cider
            /\ best_test_cider' = best_test_cider
            /\ params' = params]_vars

\* C10: without a checkpoint path nothing is loaded and the first epoch
\* starts fresh (XE, patience 0, best CIDEr 0) without error; with a path
\* whose file is absent, train() fails (TypeError) before any training pass
\* and before any file is written.
C10_NoPathFreshMissingFileFatal ==
    /\ (FreshRun /\ epoch_count = 0) =>
          /\ pc \in {"top", "train"}
          /\ error = ""
          /\ ~checkpoint.bound
          /\ params = InitParams /\ optim = XeOptimizer
          /\ pc = "train" =>
                (/\ ~use_rl /\ patience = 0
                 /\ best_val_cider = 0 /\ best_test_cider = 0)
    /\ (/\ ~FreshRun
        /\ ~files[checkpoint_filename].exists
        /\ checkpoint_filename \notin written) =>
          /\ pc \in {"top", "error"}
          /\ pc = "error" => error = "TypeError"
          /\ epoch_count = 0
          /\ written = {}
          /\ params = InitParams

\* C10 witness: train() was given a path whose file is absent, and has failed.
C10_Witness ==
    /\ ~FreshRun
    /\ ~files[checkpoint_filename].exists
    /\ pc = "error"
    /\ error = "TypeError"
    /\ epoch_count = 0

----------------------------------------------------------------------------
(* The caption model: bounds and inputs.                                   *)

\* Longest token sequence of one forward pass and of one decoding episode.
MaxLen == 3

\* Most keys one MultiHeadAttention instance is handed between two resets.
MaxKeys == 4

\* The number of encoder layers a MeshedDecoder is built for.
N_enc == 2

\* An encoder output holds 1..MaxEncOutputs layer outputs.
MaxEncOutputs == 3

\* The vocabulary: the padding token and a word.
padding_idx == "pad"

Tokens == {padding_idx, "w"}

SeqsUpTo(S, n) == UNION {[1..k -> S] : k \in 1..n}

\* Inputs of a full forward pass: captions start with the begin-of-sentence
\* token, a word, and may hold padding anywhere after it.
Captions == {s \in SeqsUpTo(Tokens, MaxLen) : s[1] # padding_idx}

DecoderKinds == {"Decoder", "MeshedDecoder"}

----------------------------------------------------------------------------
(* ScaledDotProductAttention.forward (attentions.py:45-70), by the support *)
(* of its result: a score is "score" or "-inf", a weight "pos", "zero" or  *)
(* "nan".                                                                  *)

\* att.masked_fill(attention_mask, -np.inf) on one row (attentions.py:64-65).
MaskScores(mask_row) ==
    [j \in DOMAIN mask_row |-> IF mask_row[j] THEN "-inf" ELSE "score"]

\* torch.softmax(att, -1) on one row (attentions.py:66): exp(-inf) is 0, and
\* a row of -inf only divides 0 by 0.
Softmax(row) ==
    IF \A j \in DOMAIN row : row[j] = "-inf"
        THEN [j \in DOMAIN row |-> "nan"]
        ELSE [j \in DOMAIN row |-> IF row[j] = "-inf" THEN "zero" ELSE "pos"]

ScaledDotProductAttention(attention_mask) ==
    [i \in DOMAIN attention_mask |-> Softmax(MaskScores(attention_mask[i]))]

----------------------------------------------------------------------------
(* MultiHeadAttention.forward, the running cache (attentions.py:357-363).  *)

\* The mutation of MultiHeadAttentionCache that forgets the earlier keys.
MultiHeadAttentionCacheReplaced(cache, keys, values, can_be_stateful, stateful) ==
    IF can_be_stateful /\ stateful
        THEN [running_keys |-> keys, running_values |-> values]
        ELSE cache

\* A variant of MultiHeadAttentionCache that appends whenever the module can
\* be stateful, whether statefulness is enabled or not.
MultiHeadAttentionCacheAlways(cache, keys, values, can_be_stateful, stateful) ==
    IF can_be_stateful
        THEN [running_keys   |-> cache.running_keys \o keys,
              running_values |-> cache.running_values \o values]
        ELSE cache

\* if self.can_be_stateful and self._is_stateful:
\*     self.running_keys = torch.cat([self.running_keys, keys], 1)
\*     self.running_values = torch.cat([self.running_values, values], 1)
MultiHeadAttentionCache(cache, keys, values, can_be_stateful, stateful) ==
    IF can_be_stateful /\ stateful
        THEN [running_keys   |-> cache.running_keys \o keys,
              running_values |-> cache.running_values \o values]
        ELSE cache

\* keys = self.running_keys, values = self.running_values: what the engine is
\* handed, given the cache after the append.
AttendedKeys(cache, keys, can_be_stateful, stateful) ==
    IF can_be_stateful /\ stateful THEN cache.running_keys ELSE keys

AttendedValues(cache, values, can_be_stateful, stateful) ==
    IF can_be_stateful /\ stateful THEN cache.running_values ELSE values

----------------------------------------------------------------------------
(* Decoder.forward and MeshedDecoder.forward (decoders.py:146-168,         *)
(* 189-211; the two bodies are the same text).                             *)

\* generate_padding_mask(input, self.padding_idx): True at padding tokens.
generate_padding_mask(input) ==
    [j \in 1..Len(input) |-> input[j] = padding_idx]

\* generate_sequential_mask(seq_len): True above the diagonal.
generate_sequential_mask(seq_len) ==
    [i \in 1..seq_len |-> [j \in 1..seq_len |-> j > i]]

\* The mutation of SelfAttentionMask that drops the look-ahead mask.
SelfAttentionMaskPaddingOnly(input) ==
    [i \in 1..Len(input) |-> generate_padding_mask(input)]

\* torch.logical_or(mask_self_attention, mask_queries.unsqueeze(1).unsqueeze(1))
\* (decoders.py:149-152): the padding mask is broadcast over the query rows.
SelfAttentionMask(input) ==
    LET mask_queries == generate_padding_mask(input)
        sequential   == generate_sequential_mask(Len(input))
    IN  [i \in 1..Len(input) |->
            [j \in 1..Len(input) |-> sequential[i][j] \/ mask_queries[j]]]

\* The mutation of RunningMask that keeps the new column only.
RunningMaskLastOnly(running_mask, mask_self_attention, stateful) ==
    IF stateful THEN mask_self_attention[1] ELSE running_mask

\* self.running_mask_self_attention = torch.cat([running mask, mask], -1)
\* (decoders.py:153-155).  A stateful call holds one token, so the mask of
\* the call is its single row.
RunningMask(running_mask, mask_self_attention, stateful) ==
    IF stateful THEN running_mask \o mask_self_attention[1] ELSE running_mask

\* The mutation of RunningSeq that never advances.
RunningSeqFrozen(seq, stateful) == seq

\* self.running_seq.add_(1) (decoders.py:159-160).
RunningSeq(seq, stateful) == IF stateful THEN seq + 1 ELSE seq

\* seq = arange(1, seq_len + 1).masked_fill(mask_queries, 0), and in a
\* stateful call seq = self.running_seq (decoders.py:157-161).
Positions(input, seq_after, stateful) ==
    IF stateful
        THEN <<seq_after>>
        ELSE [j \in 1..Len(input) |->
                 IF generate_padding_mask(input)[j] THEN 0 ELSE j]

\* out = self.word_emb(input) + self.pos_emb(seq) (decoders.py:163): an
\* activation is known by the token and the position it was embedded from
\* and by the number of layers it went through.
Embed(input, seq) ==
    [j \in 1..Len(input) |-> [token |-> input[j], pos |-> seq[j], depth |-> 0]]

LayerOutput(out) == [j \in DOMAIN out |-> [out[j] EXCEPT !.depth = @ + 1]]

RECURSIVE LayerInput(_, _)
\* The input of layer l: `out` after the l - 1 layers below (decoders.py:164).
LayerInput(out, l) == IF l = 1 THEN out ELSE LayerOutput(LayerInput(out, l - 1))

\* assert enc_output.size(1) == self.N_enc (decoders.py:66), the first
\* statement of MeshedDecoderLayer.forward; DecoderLayer.forward has none.
LayerAccepts(kind, enc_outputs) == kind = "MeshedDecoder" => enc_outputs = N_enc

----------------------------------------------------------------------------
(* The three stages of a decoder layer, by what is known of an activation: *)
(* "zero" after masked_fill(mask_pad, 0), "free" when it may be anything.  *)

\* The output of a MultiHeadAttention: a projection, a residual and a norm.
AttentionOutput(n) == [j \in 1..n |-> "free"]

\* PositionWiseFeedForward: two linear layers with a non-linearity, then
\* residual and normalisation; the biases make it "free" at a zero input too.
pwff(x) == [j \in DOMAIN x |-> "free"]

masked_fill(x, mask, value) == [j \in DOMAIN x |-> IF mask[j] THEN value ELSE x[j]]

\* attn += enc_att * alpha; attn = attn / np.sqrt(self.N_enc)
\* (decoders.py:79-83): zero where every gated summand is zero.
GatedSum(enc_atts) ==
    [j \in DOMAIN enc_atts[1] |->
        IF \A ith \in DOMAIN enc_atts : enc_atts[ith][j] = "zero"
            THEN "zero" ELSE "free"]

\* DecoderLayer.forward (decoders.py:27-37).
DecoderLayerForward(mask_pad) ==
    LET n        == Len(mask_pad)
        self_att == masked_fill(AttentionOutput(n), mask_pad, "zero")
        enc_att  == masked_fill(masked_fill(AttentionOutput(n), mask_pad, "zero"),
                                mask_pad, "zero")
        ff       == pwff(enc_att)
    IN  [self_att |-> self_att, enc_att |-> enc_att, ff |-> ff]

\* MeshedDecoderLayer.forward (decoders.py:65-89).
MeshedDecoderLayerForward(mask_pad) ==
    LET n        == Len(mask_pad)
        self_att == masked_fill(AttentionOutput(n), mask_pad, "zero")
        enc_atts == [ith \in 1..N_enc |->
                        masked_fill(AttentionOutput(n), mask_pad, "zero")]
        attn     == GatedSum(enc_atts)
        ff       == masked_fill(pwff(attn), mask_pad, "zero")
    IN  [self_att |-> self_att, enc_att |-> attn, ff |-> ff]

LayerForward(kind, mask_pad) ==
    IF kind = "MeshedDecoder" THEN MeshedDecoderLayerForward(mask_pad)
                              ELSE DecoderLayerForward(mask_pad)

----------------------------------------------------------------------------
(* The cross-attention of a decoder layer.                                 *)

\* Number of items (regions or grid cells) of an encoder output.
EncItems == 2

\* A variant of EncAttnCanBeStateful: enc_attn built like self_attn.
EncAttnCanBeStatefulLikeSelfAttn == TRUE

\* self.enc_attn = MultiHeadAttention(..., can_be_stateful=False, ...)
\* (decoders.py:20-23, 47-50).
EncAttnCanBeStateful == FALSE

\* The keys and values a layer hands to enc_attn: the encoder output
\* (decoders.py:31), in a meshed layer the ith layer output enc_output[:, ith]
\* (decoders.py:73).
EncoderKeys(ith) == [r \in 1..EncItems |-> <<"enc_output", ith, r>>]

\* The number of calls of enc_attn in one layer: `for ith in
\* range(self.N_enc)` in a meshed layer (decoders.py:72), else one.
EncAttnCalls(kind) == IF kind = "MeshedDecoder" THEN N_enc ELSE 1

\* The calls ith..n of a layer's enc_attn, from what the module holds: what
\* it holds afterwards and the keys each call attended over.
RECURSIVE CrossAttention(_, _, _, _)
CrossAttention(cache, ith, n, stateful) ==
    IF ith > n THEN [cache |-> cache, attended |-> <<>>]
    ELSE LET keys  == EncoderKeys(ith)
             after == MultiHeadAttentionCache(cache, keys, keys,
                                              EncAttnCanBeStateful, stateful)
             rest  == CrossAttention(after, ith + 1, n, stateful)
         IN  [cache    |-> rest.cache,
              attended |-> <<AttendedKeys(after, keys, EncAttnCanBeStateful,
                                          stateful)>> \o rest.attended]

----------------------------------------------------------------------------
(* One forward call of a decoder, as a function of the running state.      *)

RunningState(mask, seq, cache, enc) ==
    [running_mask_self_attention |-> mask, running_seq |-> seq,
     layer_cache |-> cache, enc_cache |-> enc]

DecoderForward(kind, stateful, state, input, enc_outputs) ==
    LET mask_queries == generate_padding_mask(input)
        step_mask    == SelfAttentionMask(input)
        mask_after   == RunningMask(state.running_mask_self_attention,
                                    step_mask, stateful)
        mask_self_attention == IF stateful THEN <<mask_after>> ELSE step_mask
        seq_after    == RunningSeq(state.running_seq, stateful)
        seq          == Positions(input, seq_after, stateful)
        out          == Embed(input, seq)
        accepted     == LayerAccepts(kind, enc_outputs)
        cache_after  ==
            IF accepted
                THEN [l \in Layers |->
                         MultiHeadAttentionCache(state.layer_cache[l],
                             LayerInput(out, l), LayerInput(out, l),
                             TRUE, stateful)]
                ELSE state.layer_cache
        enc_att      ==
            [l \in Layers |->
                CrossAttention(state.enc_cache[l], 1,
                               EncAttnCalls(kind), stateful)]
        enc_after    ==
            IF accepted THEN [l \in Layers |-> enc_att[l].cache]
                        ELSE state.enc_cache
    IN  [outcome |-> IF accepted THEN "ok" ELSE "AssertionError",
         after   |-> RunningState(mask_after, seq_after, cache_after,
                                  enc_after),
         enc_keys |-> IF accepted THEN [l \in Layers |-> enc_att[l].attended]
                                  ELSE <<>>,
         mask    |-> mask_self_attention,
         seq     |-> seq,
         keys    |-> IF accepted
                         THEN AttendedKeys(cache_after[1], out, TRUE, stateful)
                         ELSE <<>>,
         weights |-> IF accepted
                         THEN ScaledDotProductAttention(mask_self_attention)
                         ELSE <<>>,
         mask_pad |-> mask_queries,
         stages  |-> IF accepted
                         THEN LayerForward(kind, mask_queries)
                         ELSE [self_att |-> <<>>, enc_att |-> <<>>, ff |-> <<>>]]

----------------------------------------------------------------------------
(* Actions of the caption model.                                           *)

CurrentRunningState ==
    RunningState(running_mask_self_attention, running_seq, layer_cache,
                 enc_cache)

\* Module.enable_statefulness: every registered state goes back to its
\* default and _is_stateful becomes True, in the module and its children.
enable_statefulness ==
    /\ component \in DecoderKinds \cup {"MultiHeadAttention"}
    /\ is_stateful' = TRUE
    /\ running_mask_self_attention' = EmptyRunningMask
    /\ running_seq' = ZeroRunningSeq
    /\ layer_cache' = [l \in Layers |-> EmptyCache]
    /\ enc_cache' = [l \in Layers |-> EmptyCache]
    /\ mha_cache' = EmptyCache
    /\ fed' = <<>>
    /\ dec_failed' = FALSE
    /\ mha_fed' = <<>>
    /\ dec_call' = NoCall
    /\ mha_call' = NoCall
    /\ UNCHANGED <<component, engine, eng_call, lm_call>>
    /\ UNCHANGED <<trainerVars, util_call>>

\* Module.disable_statefulness: the states are discarded and _is_stateful
\* becomes False.
disable_statefulness ==
    /\ component \in DecoderKinds \cup {"MultiHeadAttention"}
    /\ is_stateful
    /\ is_stateful' = FALSE
    /\ running_mask_self_attention' = EmptyRunningMask
    /\ running_seq' = ZeroRunningSeq
    /\ layer_cache' = [l \in Layers |-> EmptyCache]
    /\ enc_cache' = [l \in Layers |-> EmptyCache]
    /\ mha_cache' = EmptyCache
    /\ fed' = <<>>
    /\ dec_failed' = FALSE
    /\ mha_fed' = <<>>
    /\ dec_call' = NoCall
    /\ mha_call' = NoCall
    /\ UNCHANGED <<component, engine, eng_call, lm_call>>
    /\ UNCHANGED <<trainerVars, util_call>>

\* decoder(input, encoder_output): Decoder.forward or MeshedDecoder.forward.
\* A stateful call holds one token (the running mask has one row); a
\* stateless call holds a caption.
DecoderCall ==
    /\ component \in DecoderKinds
    /\ running_seq < MaxLen
    /\ \E input \in (IF is_stateful THEN SeqsUpTo(Tokens, 1) ELSE Captions) :
       \E enc_outputs \in (IF component = "MeshedDecoder"
                               THEN 1..MaxEncOutputs ELSE {1}) :
         LET r == DecoderForward(component, is_stateful, CurrentRunningState,
                                 input, enc_outputs)
         IN  /\ running_mask_self_attention' = r.after.running_mask_self_attention
             /\ running_seq' = r.after.running_seq
             /\ layer_cache' = r.after.layer_cache
             /\ enc_cache' = r.after.enc_cache
             /\ fed' = IF is_stateful /\ r.outcome = "ok"
                           THEN fed \o input ELSE fed
             /\ dec_failed' = (dec_failed \/ r.outcome # "ok")
             /\ dec_call' = [kind        |-> "decoder",
                             stateful    |-> is_stateful,
                             input       |-> input,
                             enc_outputs |-> enc_outputs,
                             before      |-> CurrentRunningState,
                             result      |-> r]
    /\ UNCHANGED <<component, is_stateful, mhaVars, eng_call, lm_call>>
    /\ UNCHANGED <<trainerVars, util_call>>

----------------------------------------------------------------------------
(* MultiHeadAttention.forward (attentions.py:357-397): the call of the      *)
(* engine.  An argument is known by the name of the caller's argument it   *)
(* is, "None" when the caller left it out.                                 *)

Range(f) == {f[x] : x \in DOMAIN f}

\* Python's binding of a call to the parameters of a function without *args
\* and **kwargs: a keyword that names no parameter is a TypeError, raised
\* before the body runs.
BindCall(parameters, positional, keywords) ==
    IF \/ Len(positional) > Len(parameters)
       \/ \E kw \in DOMAIN keywords : kw \notin Range(parameters)
       \/ \E j \in 1..Len(positional) : parameters[j] \in DOMAIN keywords
        THEN [outcome |-> "TypeError", bound |-> <<>>]
        ELSE [outcome |-> "ok",
              bound   |-> [j \in 1..Len(parameters) |->
                              IF j <= Len(positional) THEN positional[j]
                              ELSE IF parameters[j] \in DOMAIN keywords
                                       THEN keywords[parameters[j]]
                                       ELSE "None"]]

\* The branch MultiHeadAttention.forward takes (attentions.py:381-389).
AttentionVariant(boxes, grid_size, language_signals) ==
    IF boxes # "None" \/ grid_size # "None" THEN "geometry"
    ELSE IF language_signals # "None" THEN "adaptive"
    ELSE "plain"

\* The mutation of GeometryAccepts that lets a call with both arguments in.
GeometryAcceptsBoth(boxes, grid_size) == boxes \/ grid_size

\* AugmentedGeometryScaledDotProductAttention.forward (attentions.py:133-139):
\*     if grid_size is not None: assert boxes is None
\*     else:                     assert boxes is not None
GeometryAccepts(boxes, grid_size) ==
    IF grid_size THEN ~boxes ELSE boxes

\* The classes MultiHeadAttention can be built with as attention_module
\* (attentions.py:342-348).
Engines ==
    {"ScaledDotProductAttention", "AugmentedGeometryScaledDotProductAttention",
     "AugmentedMemoryScaledDotProductAttention",
     "AdaptiveScaledDotProductAttention"}

\* The parameters of the engines' forward methods (attentions.py:45, 120,
\* 209, 282).
EngineParameters(e) ==
    IF e = "AugmentedGeometryScaledDotProductAttention"
        THEN <<"queries", "keys", "values", "boxes", "grid_size",
               "attention_mask", "attention_weights">>
    ELSE IF e = "AdaptiveScaledDotProductAttention"
        THEN <<"queries", "keys", "values", "language_signals",
               "attention_mask", "attention_weights">>
    ELSE <<"queries", "keys", "values", "attention_mask",
           "attention_weights">>

\* The arguments of a call of MultiHeadAttention.forward: each optional
\* argument is given or left out.
Given(name) == {"None", name}

WrapperArgs ==
    [boxes : Given("boxes"), grid_size : Given("grid_size"),
     language_signals : Given("language_signals"),
     attention_mask : Given("attention_mask"),
     attention_weights : Given("attention_weights")]

\* The positional arguments of self.attention(...) in the branch the call
\* takes (attentions.py:383-391; 370-378 are the same three calls).
EnginePositional(a) ==
    LET variant == AttentionVariant(a.boxes, a.grid_size, a.language_signals)
    IN  IF variant = "geometry"
            THEN <<"queries", "keys", "values", a.boxes, a.grid_size,
                   a.attention_mask, a.attention_weights>>
        ELSE IF variant = "adaptive"
            THEN <<"queries", "keys", "values", a.language_signals,
                   a.attention_mask, a.attention_weights>>
        ELSE <<"queries", "keys", "values", a.attention_mask,
               a.attention_weights>>

\* self.attention(...): the binding of the positional arguments to the
\* parameters of the engine the module was built with, then the usage check
\* of the geometry engine (attentions.py:134-139) on what its boxes and
\* grid_size parameters were bound to.
EngineDispatch(e, a) ==
    LET parameters == EngineParameters(e)
        call  == BindCall(parameters, EnginePositional(a), <<>>)
        bound == [q \in Range(parameters) |->
                     call.bound[CHOOSE j \in 1..Len(parameters) :
                                    parameters[j] = q]]
    IN  IF call.outcome # "ok"
            THEN [outcome |-> call.outcome, bound |-> <<>>]
        ELSE IF e = "AugmentedGeometryScaledDotProductAttention"
                /\ ~GeometryAccepts(bound["boxes"] # "None",
                                    bound["grid_size"] # "None")
            THEN [outcome |-> "AssertionError", bound |-> bound]
        ELSE [outcome |-> "ok", bound |-> bound]

KeyIds == {"k1", "k2"}

ValueOf(key) == <<"value", key>>

\* attention(queries, keys, values): MultiHeadAttention.forward of a module
\* built with can_be_stateful=True, called with 1 or 2 new keys and their
\* values.
MultiHeadAttentionCall ==
    /\ component = "MultiHeadAttention"
    /\ \E keys \in SeqsUpTo(KeyIds, 2), args \in WrapperArgs :
         LET values == [j \in 1..Len(keys) |-> ValueOf(keys[j])]
             cache  == MultiHeadAttentionCache(mha_cache, keys, values,
                                               TRUE, is_stateful)
         IN  /\ Len(mha_fed) + Len(keys) <= MaxKeys
             /\ mha_cache' = cache
             /\ mha_fed' = IF is_stateful THEN mha_fed \o keys ELSE mha_fed
             /\ mha_call' = [kind     |-> "attention",
                             stateful |-> is_stateful,
                             new_keys |-> keys,
                             keys     |-> AttendedKeys(cache, keys, TRUE,
                                                       is_stateful),
                             values   |-> AttendedValues(cache, values, TRUE,
                                                         is_stateful),
                             args     |-> args,
                             dispatch |-> EngineDispatch(engine, args)]
    /\ UNCHANGED <<component, engine, decoderVars, eng_call, lm_call>>
    /\ UNCHANGED <<trainerVars, util_call>>

----------------------------------------------------------------------------
(* The attention engines (attentions.py), on symbolic scores: an entry of  *)
(* the score matrix is known by the dot product it came from, by whether   *)
(* it was multiplied by attention_weights and by whether it was filled     *)
(* with -inf.  An engine keeps nothing between two calls, so a behaviour   *)
(* holds one call of it.                                                   *)

\* Most queries and most keys of one engine call.
MaxQueries == 2

MaxEngineKeys == 2

\* The number m of memory slots (config.total_memory), kept small.
MemorySlots == 2

\* attention_mask=None, or a boolean mask of shape (nq, nk).
MaskArgs(nq, nk) ==
    {[given |-> FALSE, value |-> [i \in 1..nq |-> [j \in 1..nk |-> FALSE]]]}
    \cup {[given |-> TRUE, value |-> mk] :
             mk \in [1..nq -> [1..nk -> BOOLEAN]]}

\* torch.matmul(q, k) / np.sqrt(self.d_k): entry (i, j) is the scaled dot
\* product of query i with key column j.
Scores(nq, columns) ==
    [i \in 1..nq |-> [j \in 1..columns |->
        [product |-> <<"q", i, "k", j>>, weighted |-> FALSE, masked |-> FALSE]]]

\* att * attention_weights on the columns 1..upto of every row.
Reweigh(att, attention_weights, upto) ==
    IF attention_weights
        THEN [i \in DOMAIN att |-> [j \in DOMAIN att[i] |->
                 IF j <= upto THEN [att[i][j] EXCEPT !.weighted = TRUE]
                              ELSE att[i][j]]]
        ELSE att

\* The mutation of FillMasked that lays the mask over every block of nk
\* columns, the memory columns included.
FillMaskedEverywhere(att, attention_mask, upto) ==
    IF attention_mask.given
        THEN [i \in DOMAIN att |-> [j \in DOMAIN att[i] |->
                 IF attention_mask.value[i][((j - 1) % upto) + 1]
                     THEN [att[i][j] EXCEPT !.masked = TRUE]
                     ELSE att[i][j]]]
        ELSE att

\* att.masked_fill(attention_mask, -np.inf) on the columns 1..upto.
FillMasked(att, attention_mask, upto) ==
    IF attention_mask.given
        THEN [i \in DOMAIN att |-> [j \in DOMAIN att[i] |->
                 IF j <= upto /\ attention_mask.value[i][j]
                     THEN [att[i][j] EXCEPT !.masked = TRUE]
                     ELSE att[i][j]]]
        ELSE att

\* torch.softmax(att, -1), row by row.
SoftmaxRows(att) ==
    [i \in DOMAIN att |->
        Softmax([j \in DOMAIN att[i] |->
                    IF att[i][j].masked THEN "-inf" ELSE "score"])]

\* AugmentedMemoryScaledDotProductAttention.forward (attentions.py:209-238):
\* m memory keys are appended to the nk keys, the weights and the mask are
\* laid on att[:, :, :, :nk] only.
MemoryAttention(nq, nk, attention_mask, attention_weights) ==
    LET att      == Scores(nq, nk + MemorySlots)
        weighted == Reweigh(att, attention_weights, nk)
        masked   == FillMasked(weighted, attention_mask, nk)
    IN  [att |-> masked, weights |-> SoftmaxRows(masked)]

\* AugmentedGeometryScaledDotProductAttention.forward (attentions.py:120-166)
\* by the statements it runs, in order.
GeometryAttention(boxes, grid_size) ==
    IF GeometryAccepts(boxes, grid_size)
        THEN [outcome |-> "ok",
              steps   |-> <<IF grid_size THEN "get_grids_position"
                                         ELSE "boxes",
                            "box_relational_embedding", "scores", "softmax">>]
        ELSE [outcome |-> "AssertionError", steps |-> <<>>]

\* The mutation of LanguageSlot that reads the first signal for every query.
LanguageSlotFirst(language_attn, i) == language_attn[i][1]

\* language_attn[:, :, i, i] (attentions.py:308): of the nq x nq products of
\* queries and projected language signals, the diagonal.
LanguageSlot(language_attn, i) == language_attn[i][i]

\* AdaptiveScaledDotProductAttention.forward (attentions.py:282-325).
AdaptiveAttention(nq, nk, attention_mask, attention_weights) ==
    LET s    == [i \in 1..nq |-> <<"fc_s", "language_signals", i>>]
        v    == [j \in 1..nk |-> <<"fc_v", "values", j>>]
        attn == FillMasked(Reweigh(Scores(nq, nk), attention_weights, nk),
                           attention_mask, nk)
        language_attn ==
            [i \in 1..nq |-> [j \in 1..nq |->
                [product |-> <<"q", i, "s", j>>, weighted |-> FALSE,
                 masked |-> FALSE]]]
        combined_attn ==
            [i \in 1..nq |-> Append(attn[i], LanguageSlot(language_attn, i))]
        combined_v == [i \in 1..nq |-> Append(v, s[i])]
    IN  [combined_attn |-> combined_attn,
         weights       |-> SoftmaxRows(combined_attn),
         combined_v    |-> combined_v]

\* engine(queries, keys, values, attention_mask, attention_weights) on an
\* AugmentedMemoryScaledDotProductAttention.
MemoryAttentionCall ==
    /\ component = "AugmentedMemoryScaledDotProductAttention"
    /\ eng_call = NoCall
    /\ \E nq \in 1..MaxQueries, nk \in 1..MaxEngineKeys :
       \E attention_mask \in MaskArgs(nq, nk), attention_weights \in BOOLEAN :
         eng_call' = [kind   |-> "memory", nq |-> nq, nk |-> nk,
                      attention_mask    |-> attention_mask,
                      attention_weights |-> attention_weights,
                      result |-> MemoryAttention(nq, nk, attention_mask,
                                                 attention_weights)]
    /\ UNCHANGED <<component, decoderVars, mhaVars, lm_call>>
    /\ UNCHANGED <<trainerVars, util_call>>

\* engine(queries, keys, values, boxes, grid_size, ...) on an
\* AugmentedGeometryScaledDotProductAttention; each of boxes and grid_size
\* is given or None.
GeometryAttentionCall ==
    /\ component = "AugmentedGeometryScaledDotProductAttention"
    /\ eng_call = NoCall
    /\ \E boxes \in BOOLEAN, grid_size \in BOOLEAN :
         eng_call' = [kind |-> "geometry", boxes |-> boxes,
                      grid_size |-> grid_size,
                      result |-> GeometryAttention(boxes, grid_size)]
    /\ UNCHANGED <<component, decoderVars, mhaVars, lm_call>>
    /\ UNCHANGED <<trainerVars, util_call>>

\* engine(queries, keys, values, language_signals, attention_mask,
\* attention_weights) on an AdaptiveScaledDotProductAttention; there is one
\* language signal per query.
AdaptiveAttentionCall ==
    /\ component = "AdaptiveScaledDotProductAttention"
    /\ eng_call = NoCall
    /\ \E nq \in 1..MaxQueries, nk \in 1..MaxEngineKeys :
       \E attention_mask \in MaskArgs(nq, nk), attention_weights \in BOOLEAN :
         eng_call' = [kind   |-> "adaptive", nq |-> nq, nk |-> nk,
                      attention_mask    |-> attention_mask,
                      attention_weights |-> attention_weights,
                      result |-> AdaptiveAttention(nq, nk, attention_mask,
                                                   attention_weights)]
    /\ UNCHANGED <<component, decoderVars, mhaVars, lm_call>>
    /\ UNCHANGED <<trainerVars, util_call>>

----------------------------------------------------------------------------
(* The adaptive language models (language_models.py:136-242).              *)

AdaptiveModels == {"AdaptiveBERTModel", "AdaptivePhoBERTModel"}

\* def forward(self, input, encoder_output, mask_encoder=None)
\* (decoders.py:146): the parameters of Decoder.forward.
DecoderForwardParameters == <<"input", "encoder_output", "mask_encoder">>

\* self.decoder(language_feature, encoder_output, mask_encoder=mask_encoder,
\*              positional_emb=positional_emb) (language_models.py:186, 240).
DecoderCallPositional == <<"language_feature", "encoder_output">>

DecoderCallKeywords ==
    [mask_encoder |-> "mask_encoder", positional_emb |-> "positional_emb"]

\* layer(out, encoder_output, mask_pad=..., mask_self_att=...,
\*       mask_enc_att=mask_encoder) (decoders.py:165): the decoder hands its
\* layers no language_signals, so each layer sees the default, None.
LayerLanguageSignals(bound) == [l \in Layers |-> "None"]

\* AdaptiveBERTModel.forward and AdaptivePhoBERTModel.forward
\* (language_models.py:160-188, 214-242).
AdaptiveModelForward(input_ids) ==
    LET call == BindCall(DecoderForwardParameters, DecoderCallPositional,
                         DecoderCallKeywords)
    IN  IF call.outcome = "ok"
            THEN [outcome |-> "ok",
                  decoder_input    |-> call.bound[1],
                  language_signals |-> LayerLanguageSignals(call.bound),
                  variant |-> [l \in Layers |->
                      AttentionVariant("None", "None",
                                       LayerLanguageSignals(call.bound)[l])]]
            ELSE [outcome |-> call.outcome,
                  decoder_input    |-> "None",
                  language_signals |-> [l \in Layers |-> "None"],
                  variant |-> [l \in Layers |-> "none"]]

\* model(input_ids, encoder_output) on an adaptive language model.
AdaptiveModelCall ==
    /\ component \in AdaptiveModels
    /\ \E input_ids \in Captions :
         lm_call' = [kind |-> "adaptive_model", input_ids |-> input_ids,
                     result |-> AdaptiveModelForward(input_ids)]
    /\ UNCHANGED <<component, decoderVars, mhaVars, eng_call>>
    /\ UNCHANGED <<trainerVars, util_call>>

----------------------------------------------------------------------------
(* The specification of the caption model.                                 *)

Components ==
    DecoderKinds \cup AdaptiveModels
    \cup {"MultiHeadAttention", "AugmentedMemoryScaledDotProductAttention",
          "AugmentedGeometryScaledDotProductAttention",
          "AdaptiveScaledDotProductAttention"}

\* Training is not running: the trainer is as built.
TrainerIdle ==
    /\ pc = "top"
    /\ error = ""
    /\ checkpoint_filename = "None"
    /\ files = [n \in FileNames |-> NoFile]
    /\ params = InitParams
    /\ optim = XeOptimizer
    /\ checkpoint = NoCheckpoint
    /\ use_rl = FALSE
    /\ best_val_cider = 0
    /\ best_test_cider = 0
    /\ patience = 0
    /\ val_cider = 0
    /\ best = FALSE
    /\ switch_to_rl = FALSE
    /\ exit_train = FALSE
    /\ epoch_count = 0
    /\ seen_max = 0
    /\ below_streak = 0
    /\ written = {}
    /\ epoch = 0

\* A module of the caption model after construction: no statefulness, the
\* registered states at their defaults, no call made.
ModelInit ==
    /\ TrainerIdle
    /\ component \in Components
    /\ is_stateful = FALSE
    /\ DecoderDefaults
    /\ fed = <<>>
    /\ dec_failed = FALSE
    /\ dec_call = NoCall
    /\ mha_cache = EmptyCache
    /\ mha_fed = <<>>
    /\ mha_call = NoCall
    /\ engine \in (IF component = "MultiHeadAttention" THEN Engines
                                                       ELSE {DefaultEngine})
    /\ eng_call = NoCall
    /\ lm_call = NoCall
    /\ util_call = NoCall

ModelNext ==
    \/ enable_statefulness
    \/ disable_statefulness
    \/ DecoderCall
    \/ MultiHeadAttentionCall
    \/ MemoryAttentionCall
    \/ GeometryAttentionCall
    \/ AdaptiveAttentionCall
    \/ AdaptiveModelCall

ModelSpec == ModelInit /\ [][ModelNext]_vars

ModelTypeOK ==
    /\ component \in Components
    /\ is_stateful \in BOOLEAN
    /\ running_seq \in 0..MaxLen
    /\ Len(running_mask_self_attention) <= MaxLen
    /\ Len(fed) <= MaxLen
    /\ Len(mha_fed) <= MaxKeys
    /\ dec_failed \in BOOLEAN

----------------------------------------------------------------------------
(* Properties of the caption model.                                        *)

\* The last decoder call was a stateful one that returned, and no call has
\* failed since the reset: `fed` is the token sequence decoded so far.
StatefulStepDone ==
    /\ component \in DecoderKinds
    /\ dec_call.kind = "decoder"
    /\ dec_call.stateful
    /\ dec_call.result.outcome = "ok"
    /\ ~dec_failed

\* One stateless forward pass of the same decoder over the tokens fed so far.
FullPass ==
    DecoderForward(component, FALSE,
                   RunningState(EmptyRunningMask, ZeroRunningSeq,
                                [l \in Layers |-> EmptyCache],
                                [l \in Layers |-> EmptyCache]),
                   fed, dec_call.enc_outputs)

\* The step that consumed token L = Len(fed) saw what row L of the full pass
\* sees: the same self-attention keys, the same mask over the key columns
\* and the same index into the positional embedding.
SameInputsAsFullPass ==
    LET L == Len(fed)
    IN  /\ dec_call.result.keys = FullPass.keys
        /\ dec_call.result.mask[1] = FullPass.mask[L]
        /\ dec_call.result.seq[1] = FullPass.seq[L]

NoPaddingFed == \A j \in 1..Len(fed) : fed[j] # padding_idx

\* C11 (as stated): for every token sequence of length L, decoding it one
\* token per stateful call from a reset state gives step L the same
\* self-attention keys, the same suppressed key columns and the same
\* positional-embedding index as row L of a single stateless pass.
C11_StatefulStepSameAsFullPass ==
    StatefulStepDone => SameInputsAsFullPass

\* C11 (amended): the same, for every token sequence that holds no padding
\* token.  A stateful step indexes the positional embedding by the running
\* counter whatever the token; the stateless pass indexes it by 0 at a
\* padding token.
C11_StatefulStepSameAsFullPassNoPadding ==
    (StatefulStepDone /\ NoPaddingFed) => SameInputsAsFullPass

C11_Witness ==
    /\ StatefulStepDone
    /\ NoPaddingFed
    /\ Len(fed) >= 2
    /\ SameInputsAsFullPass

\* The last decoder call was a stateless pass over a caption that returned.
FullPassDone ==
    /\ component \in DecoderKinds
    /\ dec_call.kind = "decoder"
    /\ ~dec_call.stateful
    /\ dec_call.result.outcome = "ok"

StatefulAttention == component = "MultiHeadAttention" /\ is_stateful

\* C13: a stateful MultiHeadAttention appends the incoming keys and values to
\* its cache before attending and attends over the whole cache: after calls
\* that supplied n1, ..., nk keys since the reset it holds, and attends
\* over, those n1 + ... + nk keys in arrival order, and the cache of values
\* is as long as the cache of keys.
C13_CacheAccumulatesInOrder ==
    StatefulAttention =>
        /\ mha_cache.running_keys = mha_fed
        /\ mha_cache.running_values =
               [j \in 1..Len(mha_fed) |-> ValueOf(mha_fed[j])]
        /\ Len(mha_cache.running_values) = Len(mha_cache.running_keys)
        /\ mha_call.kind = "attention" =>
               /\ mha_call.keys = mha_fed
               /\ mha_call.values = mha_cache.running_values

C13_Witness ==
    /\ StatefulAttention
    /\ mha_call.kind = "attention"
    /\ Len(mha_call.new_keys) = 2
    /\ Len(mha_call.keys) >= 3
    /\ mha_call.keys = mha_fed

\* A decoder in stateful mode in which every call since the reset returned.
StatefulEpisode == component \in DecoderKinds /\ is_stateful /\ ~dec_failed

\* C14: after k successful single-token stateful calls since a reset the
\* running mask has exactly k columns, the running position counter is k and
\* the self-attention key/value cache of every layer holds k entries; each
\* call adds exactly one to all three.
C14_RunningStateCountsCalls ==
    StatefulEpisode =>
        LET k == Len(fed)
        IN  /\ Len(running_mask_self_attention) = k
            /\ running_seq = k
            /\ \A l \in Layers :
                   /\ Len(layer_cache[l].running_keys) = k
                   /\ Len(layer_cache[l].running_values) = k
            /\ dec_call.kind = "decoder" =>
                   /\ Len(dec_call.before.running_mask_self_attention) = k - 1
                   /\ dec_call.before.running_seq = k - 1
                   /\ \A l \in Layers :
                          Len(dec_call.before.layer_cache[l].running_keys) = k - 1

C14_Witness ==
    /\ StatefulEpisode
    /\ dec_call.kind = "decoder"
    /\ Len(fed) >= 2
    /\ running_seq = Len(fed)
    /\ Len(layer_cache[NLayers].running_keys) = Len(fed)

\* The last call handed a MeshedDecoder an encoder output whose number of
\* layer outputs is not N_enc.
MeshedCallMismatched ==
    /\ component = "MeshedDecoder"
    /\ dec_call.kind = "decoder"
    /\ dec_call.enc_outputs # N_enc

\* C15: a meshed decoder given an encoder output whose number of layer
\* outputs differs from N fails with a configuration error, and it fails
\* before that call has changed the decoder's running mask, its running
\* position counter or any self-attention cache.
C15_MismatchFailsBeforeRunningState ==
    MeshedCallMismatched =>
        /\ dec_call.result.outcome = "AssertionError"
        /\ dec_call.result.after = dec_call.before

\* The last decoder call, stateful or not, ran its layers.
LayersRan ==
    /\ component \in DecoderKinds
    /\ dec_call.kind = "decoder"
    /\ dec_call.result.outcome = "ok"

\* C16: in DecoderLayer and in MeshedDecoderLayer the activation at every
\* padding position of the input is zero after the self-attention stage,
\* after the cross-attention stage and after the feed-forward stage, so the
\* output of every decoder layer is zero at padding positions.
C16_PaddingZeroAfterEveryStage ==
    LayersRan =>
        \A j \in 1..Len(dec_call.input) :
            dec_call.result.mask_pad[j] =>
                /\ dec_call.result.stages.self_att[j] = "zero"
                /\ dec_call.result.stages.enc_att[j] = "zero"
                /\ dec_call.result.stages.ff[j] = "zero"

MemoryCallDone ==
    /\ component = "AugmentedMemoryScaledDotProductAttention"
    /\ eng_call.kind = "memory"

\* C17: in the memory-augmented attention the mask and the multiplicative
\* weights change the first nk columns of the nq x (nk + m) score matrix
\* only: the m memory columns are never masked and never reweighted, so
\* every query row keeps at least m unmasked choices.
C17_MemoryColumnsUntouched ==
    MemoryCallDone =>
        LET nk  == eng_call.nk
            att == eng_call.result.att
        IN  \A i \in 1..eng_call.nq :
                /\ Len(att[i]) = nk + MemorySlots
                /\ \A j \in (nk + 1)..(nk + MemorySlots) :
                       att[i][j] = Scores(eng_call.nq, nk + MemorySlots)[i][j]
                /\ \A j \in 1..nk :
                       /\ att[i][j].masked =
                              (eng_call.attention_mask.given
                                  /\ eng_call.attention_mask.value[i][j])
                       /\ att[i][j].weighted = eng_call.attention_weights
                /\ Cardinality({j \in 1..Len(att[i]) : ~att[i][j].masked})
                       >= MemorySlots
                /\ \A j \in 1..Len(att[i]) :
                       eng_call.result.weights[i][j] # "nan"

C17_Witness ==
    /\ MemoryCallDone
    /\ eng_call.nk = 2
    /\ eng_call.attention_weights
    /\ eng_call.attention_mask.given
    /\ \E i \in 1..eng_call.nq :
           /\ \A j \in 1..eng_call.nk : eng_call.result.att[i][j].masked
           /\ \A j \in (eng_call.nk + 1)..(eng_call.nk + MemorySlots) :
                  eng_call.result.weights[i][j] = "pos"

GeometryCallDone ==
    /\ component = "AugmentedGeometryScaledDotProductAttention"
    /\ eng_call.kind = "geometry"

\* C18: the geometry-augmented attention accepts a call only when exactly
\* one of boxes and grid_size is supplied; a call with both or with neither
\* is a usage error, raised before any attention score is computed.
C18_ExactlyOneOfBoxesAndGrid ==
    GeometryCallDone =>
        /\ (eng_call.result.outcome = "ok")
               <=> (eng_call.boxes # eng_call.grid_size)
        /\ eng_call.result.outcome # "ok" =>
               /\ eng_call.result.outcome = "AssertionError"
               /\ "scores" \notin Range(eng_call.result.steps)
        /\ eng_call.result.outcome = "ok" =>
               "scores" \in Range(eng_call.result.steps)

C18_Witness ==
    /\ GeometryCallDone
    /\ eng_call.boxes
    /\ eng_call.grid_size
    /\ eng_call.result.outcome = "AssertionError"
    /\ eng_call.result.steps = <<>>

AdaptiveCallDone ==
    /\ component = "AdaptiveScaledDotProductAttention"
    /\ eng_call.kind = "adaptive"

\* C19: in the adaptive attention the softmax of query i runs over exactly
\* nk + 1 choices: the nk visual keys and one language slot, whose score is
\* the scaled dot product of query i with the language signal of the same
\* position i and whose value in the weighted sum is the language-signal
\* vector of position i.
C19_LanguageSlotOfSamePosition ==
    AdaptiveCallDone =>
        LET nk == eng_call.nk
            r  == eng_call.result
        IN  \A i \in 1..eng_call.nq :
                /\ Len(r.combined_attn[i]) = nk + 1
                /\ Len(r.weights[i]) = nk + 1
                /\ Len(r.combined_v[i]) = nk + 1
                /\ \A j \in 1..nk :
                       /\ r.combined_attn[i][j].product = <<"q", i, "k", j>>
                       /\ r.combined_v[i][j] = <<"fc_v", "values", j>>
                /\ r.combined_attn[i][nk + 1].product = <<"q", i, "s", i>>
                /\ r.combined_v[i][nk + 1] = <<"fc_s", "language_signals", i>>

C19_Witness ==
    /\ AdaptiveCallDone
    /\ eng_call.nq = 2
    /\ eng_call.nk = 2
    /\ eng_call.result.combined_attn[2][3].product = <<"q", 2, "s", 2>>
    /\ eng_call.result.weights[2][3] = "pos"

AdaptiveModelCalled ==
    /\ component \in AdaptiveModels
    /\ lm_call.kind = "adaptive_model"

\* C20: AdaptiveBERTModel and AdaptivePhoBERTModel feed the projected
\* language-model hidden state to the decoder as its language_signals input,
\* so that the cross-attention of every decoder layer receives a non-empty
\* language_signals and runs the adaptive variant.
C20_LayersReceiveLanguageSignals ==
    AdaptiveModelCalled =>
        /\ lm_call.result.outcome = "ok"
        /\ \A l \in Layers :
               /\ lm_call.result.language_signals[l] = "language_feature"
               /\ lm_call.result.variant[l] = "adaptive"

----------------------------------------------------------------------------
(* The helper functions: the export of the predictions                     *)
(* (Trainer.convert_results, src/utils/trainer.py:350-355) and the batch   *)
(* collation of region features (src/data_utils/utils.py:121-173).  They   *)
(* keep no state of their own: a behaviour of UtilSpec is one call of one  *)
(* of them on one input, and util_call is what the call computed.          *)

\* Number of records of the sample submission at most.
MaxSamples == 2

\* Number of records of `results` at most.
MaxResults == 2

\* Number of generated captions of one result at most.
MaxGens == 2

\* File names of images.
Ids == {"a.jpg", "b.jpg"}

\* Caption strings a beam search produced.
GenCaptions == {"c1", "c2"}

\* The captions field of a record of the sample submission.
SampleCaptions == "sample"

\* What json.load(open(sample_submisison_json)) returns (trainer.py:351):
\* the records of the sample submission, in the order of the file.
SampleSubmissions ==
    {<<>>} \cup
    {[i \in DOMAIN ids |-> [id |-> ids[i], captions |-> SampleCaptions]] :
        ids \in SeqsUpTo(Ids, MaxSamples)}

\* The records get_predictions appends to `results` (trainer.py:338-343);
\* gen holds one caption per reference (trainer.py:332-336).
ResultItems ==
    {[filename |-> f, gen |-> g] :
        f \in Ids, g \in SeqsUpTo(GenCaptions, MaxGens)}

ResultLists == {<<>>} \cup SeqsUpTo(ResultItems, MaxResults)

\* The inner loop of convert_results (trainer.py:353-355) from the i-th
\* result on: every result whose filename is the record's id overwrites the
\* record's captions with its first caption.
RECURSIVE ConvertItem(_, _, _)
ConvertItem(sample_item, results, i) ==
    IF i > Len(results) THEN sample_item
    ELSE ConvertItem(
             IF sample_item.id = results[i].filename
                 THEN [sample_item EXCEPT !.captions = results[i].gen[1]]
                 ELSE sample_item,
             results, i + 1)

\* convert_results (trainer.py:350-355).  The loops change the loaded list
\* in memory; the body ends with them, so no file is opened for writing and
\* the call returns None.
convert_results(sample_json_data, results) ==
    [sample_json_data |->
         [i \in DOMAIN sample_json_data |->
              ConvertItem(sample_json_data[i], results, 1)],
     written |-> {},
     returned |-> "None"]

ConvertResultsCall ==
    /\ component = "convert_results"
    /\ util_call = NoCall
    /\ \E sample \in SampleSubmissions, results \in ResultLists :
           util_call' = [kind |-> "convert_results",
                         sample |-> sample,
                         results |-> results,
                         result |-> convert_results(sample, results)]
    /\ UNCHANGED <<component, decoderVars, mhaVars, eng_call, lm_call>>
    /\ UNCHANGED trainerVars

\* Number of samples of a batch at most.
MaxBatch == 3

\* Number of rows (regions) of a sample's feature array at most.
MaxRows == 2

\* The j-th row of the feature array and of the box array of sample b.
FeatureRow(b, j) == <<"feature", b, j>>

BoxRow(b, j) == <<"box", b, j>>

\* torch.zeros_like(features[-1][-1]).unsqueeze(0) and
\* torch.zeros_like(boxes[-1][-1]).unsqueeze(0) (utils.py:136-137, 163-164).
ZeroFeature == <<"zero", "feature">>

ZeroBox == <<"zero", "box">>

\* A sample of the dataset with n regions: one feature row and one box per
\* region, and the caption data that goes with them.
Sample(b, n) ==
    [feature |-> [j \in 1..n |-> FeatureRow(b, j)],
     box     |-> [j \in 1..n |-> BoxRow(b, j)],
     caption |-> <<"caption", b>>]

\* The batches a DataLoader hands to its collate function; a batch may be
\* empty and a sample may have no region.
Batches ==
    UNION {{[b \in 1..k |-> Sample(b, lens[b])] : lens \in [1..k -> 0..MaxRows]} :
              k \in 0..MaxBatch}

\* A variant of MaxSeqLen: the row count of the last sample.
MaxSeqLenOfLast(samples, i, max_seq_len) ==
    IF Len(samples) = 0 THEN 0 ELSE Len(samples[Len(samples)].feature)

\* The first loop (utils.py:127-130, 154-157) from sample i on:
\*     if max_seq_len < feature.shape[0]: max_seq_len = feature.shape[0]
RECURSIVE MaxSeqLen(_, _, _)
MaxSeqLen(samples, i, max_seq_len) ==
    IF i > Len(samples) THEN max_seq_len
    ELSE MaxSeqLen(samples, i + 1,
                   IF max_seq_len < Len(samples[i].feature)
                       THEN Len(samples[i].feature) ELSE max_seq_len)

\* The inner loop (utils.py:139-141, 166-168), `for ith in
\* range(features[batch_ith].shape[0], max_seq_len)`: each iteration appends
\* one zero row to the features and one to the boxes of the sample.
RECURSIVE PadSample(_, _, _, _)
PadSample(feature, box, ith, max_seq_len) ==
    IF ith >= max_seq_len THEN [feature |-> feature, box |-> box]
    ELSE PadSample(feature \o <<ZeroFeature>>, box \o <<ZeroBox>>,
                   ith + 1, max_seq_len)

\* features[-1][-1] (utils.py:136, 163) needs a last sample with a last row.
HasLastRow(samples) ==
    /\ Len(samples) > 0
    /\ Len(samples[Len(samples)].feature) > 0

\* The part the two collate functions share (utils.py:126-144, 153-171).
PadBatch(samples) ==
    LET max_seq_len == MaxSeqLen(samples, 1, 0)
        padded == [b \in 1..Len(samples) |->
                      PadSample(samples[b].feature, samples[b].box,
                                Len(samples[b].feature), max_seq_len)]
    IN  [features |-> [b \in 1..Len(samples) |-> padded[b].feature],
         boxes    |-> [b \in 1..Len(samples) |-> padded[b].box]]

\* region_feature_collate_fn (utils.py:121-148).
region_feature_collate_fn(samples) ==
    IF ~HasLastRow(samples)
        THEN [outcome |-> "IndexError", features |-> <<>>, boxes |-> <<>>,
              tokens |-> <<>>, shifted_right_tokens |-> <<>>]
        ELSE [outcome  |-> "ok",
              features |-> PadBatch(samples).features,
              boxes    |-> PadBatch(samples).boxes,
              tokens   |-> [b \in 1..Len(samples) |->
                               <<"token", samples[b].caption>>],
              shifted_right_tokens |->
                  [b \in 1..Len(samples) |->
                      <<"shifted_right_token", samples[b].caption>>]]

\* dict_region_feature_collate_fn (utils.py:150-173).
dict_region_feature_collate_fn(samples) ==
    IF ~HasLastRow(samples)
        THEN [outcome |-> "IndexError", features |-> <<>>, boxes |-> <<>>,
              captions |-> <<>>]
        ELSE [outcome  |-> "ok",
              features |-> PadBatch(samples).features,
              boxes    |-> PadBatch(samples).boxes,
              captions |-> [b \in 1..Len(samples) |-> samples[b].caption]]

RegionFeatureCollateCall ==
    /\ component = "region_feature_collate_fn"
    /\ util_call = NoCall
    /\ \E samples \in Batches :
           util_call' = [kind    |-> "region_feature_collate_fn",
                         samples |-> samples,
                         result  |-> region_feature_collate_fn(samples)]
    /\ UNCHANGED <<component, decoderVars, mhaVars, eng_call, lm_call>>
    /\ UNCHANGED trainerVars

DictRegionFeatureCollateCall ==
    /\ component = "dict_region_feature_collate_fn"
    /\ util_call = NoCall
    /\ \E samples \in Batches :
           util_call' = [kind    |-> "dict_region_feature_collate_fn",
                         samples |-> samples,
                         result  |-> dict_region_feature_collate_fn(samples)]
    /\ UNCHANGED <<component, decoderVars, mhaVars, eng_call, lm_call>>
    /\ UNCHANGED trainerVars

CollateFns ==
    {"region_feature_collate_fn", "dict_region_feature_collate_fn"}

UtilComponents == {"convert_results"} \cup CollateFns

\* The caption model is built and not called; one helper is about to run.
UtilInit ==
    /\ TrainerIdle
    /\ component \in UtilComponents
    /\ is_stateful = FALSE
    /\ DecoderDefaults
    /\ fed = <<>>
    /\ dec_failed = FALSE
    /\ dec_call = NoCall
    /\ mha_cache = EmptyCache
    /\ mha_fed = <<>>
    /\ mha_call = NoCall
    /\ engine = DefaultEngine
    /\ eng_call = NoCall
    /\ lm_call = NoCall
    /\ util_call = NoCall

UtilNext ==
    \/ ConvertResultsCall
    \/ RegionFeatureCollateCall
    \/ DictRegionFeatureCollateCall

UtilSpec == UtilInit /\ [][UtilNext]_vars

UtilTypeOK ==
    /\ component \in UtilComponents
    /\ util_call.kind \in {"none"} \cup UtilComponents

----------------------------------------------------------------------------
(* Properties of the helper functions.                                     *)

ConvertResultsDone ==
    /\ component = "convert_results"
    /\ util_call.kind = "convert_results"

\* The records of `results` that are for the i-th record of the sample.
MatchingResults(call, i) ==
    {j \in DOMAIN call.results : call.results[j].filename = call.sample[i].id}

\* The array holds the records of the sample submission, in the same order
\* and with the same ids; a record with a matching result has the first
\* generated caption of one as captions, any other record is unchanged.
IsSubmissionOf(array, call) ==
    /\ DOMAIN array = DOMAIN call.sample
    /\ \A i \in DOMAIN array :
           /\ array[i].id = call.sample[i].id
           /\ IF MatchingResults(call, i) = {}
                  THEN array[i] = call.sample[i]
                  ELSE \E j \in MatchingResults(call, i) :
                           array[i].captions = call.results[j].gen[1]

----------------------------------------------------------------------------
(* Further properties of the training orchestrator (Spec).                 *)

\* C22: every epoch that runs with use_rl true completes one pass of
\* train_scst (sampling, reward, baseline, optimizer step) without reading a
\* local variable or an attribute that was never assigned: the pass reads
\* bound names only, steps the optimizer and hands over to the evaluation.
C22_RlEpochCompletesScstPass ==
    [][(pc = "train" /\ use_rl) =>
           /\ ScstPass.error = ""
           /\ pc' = "evaluate"
           /\ error' = ""
           /\ optim' = SteppedOptimizer(optim)]_vars

\* C23: self.epoch counts the completed epochs.  It increases by exactly one
\* when an epoch completes, the record written to the last file stores it
\* under the key epoch, and the value the progress messages of a training
\* pass show is the number of epochs completed so far.
C23_EpochCountsCompletedEpochs ==
    [][/\ (pc = "exit_check" /\ pc' \in {"top", "done"}) => epoch' = epoch + 1
       /\ (pc = "save" /\ pc' = "copy") => "epoch" \in files'[LastFile].keys
       /\ (pc = "top" /\ pc' = "train") => epoch' = epoch_count']_vars

FairSpec == Spec /\ WF_vars(Next)

\* C25: the phase is monotone within a run.  Once an epoch has set use_rl to
\* true it is never false again, and the epochs that follow train with
\* train_scst: the run goes on from the switch to a training pass in the
\* reinforcement phase.
C25_PhaseMonotone ==
    /\ [][use_rl => use_rl']_vars
    /\ switch_to_rl ~> (pc = "train" /\ use_rl)

\* C26: the epoch that switches to RL is never a best epoch, so the rollback
\* runs on every switch; whenever it runs, the best file exists and holds
\* every key load_checkpoint reads, and the values the message after it
\* reads (epoch, val_loss, best_val_cider, best_test_cider) are present in
\* the loaded checkpoint: the rollback never fails.
C26_RollbackNeverFails ==
    [][/\ (pc = "evaluate" /\ switch_to_rl') => ~best'
       /\ (pc = "rollback" /\ NeedsRollback) =>
              /\ files[BestFile].exists
              /\ LoadKeys \subseteq files[BestFile].keys
              /\ pc' = "rollback_print"
       /\ pc = "rollback_print" =>
              /\ ~checkpoint.isNone
              /\ PrintKeys \subseteq checkpoint.keys
              /\ pc' = "save"]_vars

----------------------------------------------------------------------------
(* Further properties of the caption model (ModelSpec).                    *)

\* The last decoder call was made with statefulness disabled.
StatelessCallDone ==
    /\ component \in DecoderKinds
    /\ dec_call.kind = "decoder"
    /\ ~dec_call.stateful

\* C27: a forward call made while statefulness is disabled leaves the
\* decoder's running mask, its running position counter and every key/value
\* cache of a multi-head attention as they were before the call.
C27_StatelessCallLeavesRunningState ==
    [][(~is_stateful /\ ~is_stateful') =>
           /\ UNCHANGED <<running_mask_self_attention, running_seq,
                          layer_cache, enc_cache, mha_cache>>
           /\ (dec_call'.kind = "decoder" /\ ~dec_call'.stateful) =>
                  dec_call'.result.after = dec_call'.before]_vars

C27_Witness ==
    /\ StatelessCallDone
    /\ dec_call.result.outcome = "ok"
    /\ Len(dec_call.input) = MaxLen
    /\ CurrentRunningState = dec_call.before
    /\ running_seq = ZeroRunningSeq
    /\ layer_cache[1] = EmptyCache

\* A decoder call returned: its layers ran their cross-attention.
CrossAttentionRan ==
    /\ component \in DecoderKinds
    /\ dec_call.kind = "decoder"
    /\ dec_call.result.outcome = "ok"

\* C28: the cross-attention module of a decoder layer never accumulates
\* state: it holds nothing after any call, the keys of each of its calls are
\* exactly the encoder output handed to that call, and so their number is
\* the same at every step of an incremental decode.
C28_CrossAttentionKeepsNoState ==
    /\ \A l \in Layers : enc_cache[l] = EmptyCache
    /\ CrossAttentionRan =>
           \A l \in Layers :
               /\ Len(dec_call.result.enc_keys[l]) = EncAttnCalls(component)
               /\ \A ith \in 1..EncAttnCalls(component) :
                      /\ dec_call.result.enc_keys[l][ith] = EncoderKeys(ith)
                      /\ Len(dec_call.result.enc_keys[l][ith]) = EncItems

\* The third step of an incremental decode with a meshed decoder.
C28_Witness ==
    /\ CrossAttentionRan
    /\ component = "MeshedDecoder"
    /\ dec_call.stateful
    /\ running_seq = MaxLen
    /\ Len(layer_cache[NLayers].running_keys) = MaxLen
    /\ Len(dec_call.result.enc_keys[NLayers][N_enc]) = EncItems

\* A MultiHeadAttention module was called.
WrapperCalled ==
    /\ component = "MultiHeadAttention"
    /\ mha_call.kind = "attention"

\* C29: for every call of MultiHeadAttention, whatever engine the module was
\* built with and whatever combination of boxes, grid_size and
\* language_signals is passed, the engine is entered or refuses the call with
\* its own usage error, and attention_mask and attention_weights reach it
\* bound to its attention_mask and attention_weights parameters; a geometry
\* engine called with neither boxes nor grid_size raises the usage error even
\* when a mask is passed.
C29_MaskAndWeightsReachEngine ==
    WrapperCalled =>
        /\ mha_call.dispatch.outcome # "TypeError"
        /\ mha_call.dispatch.bound["attention_mask"]
               = mha_call.args.attention_mask
        /\ mha_call.dispatch.bound["attention_weights"]
               = mha_call.args.attention_weights
        /\ (/\ engine = "AugmentedGeometryScaledDotProductAttention"
            /\ mha_call.args.boxes = "None"
            /\ mha_call.args.grid_size = "None")
               => mha_call.dispatch.outcome = "AssertionError"

\* A collate function was called on a non-empty batch whose feature arrays
\* each have at least one row.
CollateDone ==
    /\ component \in CollateFns
    /\ util_call.kind \in CollateFns
    /\ Len(util_call.samples) > 0
    /\ \A b \in DOMAIN util_call.samples :
           Len(util_call.samples[b].feature) > 0

\* The largest number of feature rows of a sample of the batch.
Longest(samples) ==
    CHOOSE n \in {Len(samples[b].feature) : b \in DOMAIN samples} :
        \A b \in DOMAIN samples : Len(samples[b].feature) <= n

\* C30: for every non-empty batch whose feature arrays each have at least
\* one row, both collate functions return features and boxes with exactly
\* max_seq_len rows per sample, max_seq_len being the largest row count of
\* the batch; the first rows of each sample are its original rows in order,
\* every added row is all zero, and features and boxes of a sample are
\* padded by the same number of rows.
C30_CollatePadsToLongest ==
    CollateDone =>
        LET samples == util_call.samples
            r == util_call.result
            m == Longest(samples)
        IN  /\ r.outcome = "ok"
            /\ DOMAIN r.features = DOMAIN samples
            /\ DOMAIN r.boxes = DOMAIN samples
            /\ \A b \in DOMAIN samples :
                   LET n == Len(samples[b].feature)
                   IN  /\ Len(r.features[b]) = m
                       /\ Len(r.boxes[b]) = m
                       /\ SubSeq(r.features[b], 1, n) = samples[b].feature
                       /\ SubSeq(r.boxes[b], 1, Len(samples[b].box))
                              = samples[b].box
                       /\ \A j \in (n + 1)..m :
                              /\ r.features[b][j] = ZeroFeature
                              /\ r.boxes[b][j] = ZeroBox
                       /\ Len(r.features[b]) - n
                              = Len(r.boxes[b]) - Len(samples[b].box)

\* A batch whose longest sample is not the last one and whose first sample
\* needs padding.
C30_Witness ==
    /\ CollateDone
    /\ util_call.kind = "dict_region_feature_collate_fn"
    /\ Len(util_call.samples) = MaxBatch
    /\ Len(util_call.samples[1].feature) = 1
    /\ Len(util_call.samples[2].feature) = MaxRows
    /\ Len(util_call.samples[MaxBatch].feature) = 1
    /\ util_call.result.features[1][MaxRows] = ZeroFeature
    /\ util_call.result.boxes[MaxBatch][MaxRows] = ZeroBox

====
